---- MODULE Spec2Model ----
(***************************************************************************)
(* Model of the rendy device-memory allocator facade `Heaps`               *)
(* (memory/src/heaps.rs): memory-type selection, heap-budget admission,    *)
(* routing to the dedicated / arena / dynamic sub-allocators, free         *)
(* dispatch, per-heap accounting, dispose, and the map / unmap dispatch of *)
(* MemoryBlock.                                                            *)
(*                                                                         *)
(* heaps.rs is translated from the source.  The sub-allocators, the usage  *)
(* fitness and the device live in other modules (allocator, usage, ash);   *)
(* they follow the written specification of the allocator and are marked   *)
(* "from the specification" below.                                         *)
(*                                                                         *)
(* u64 arithmetic: a value is kept as an integer representative of its     *)
(* residue modulo 2^64; a negative representative v stands for 2^64 + v.   *)
(* All request sizes are far below 2^63, so additions never wrap; a        *)
(* subtraction that underflows panics when the build has overflow checks   *)
(* (debug) and wraps otherwise (release).                                  *)
(***************************************************************************)
EXTENDS Integers, Sequences, FiniteSets, TLC

VARIABLES
    env,              \* name of the device and caller environment (fixed)
    overflow_checks,  \* build flavour: TRUE = arithmetic overflow panics
    types,            \* Heaps.types : index -> MemoryType (static part)
    heaps,            \* Heaps.heaps : index -> MemoryHeap {size, used}
    arenas,           \* per memory type: the arena allocator's chunk deque
    dynamics,         \* per memory type: the dynamic allocator's chunks
    raw,              \* device: handles of the live raw allocations
    blocks,           \* MemoryBlocks the caller holds (allocated, not freed)
    last,             \* the latest call and what it returned
    panicked,         \* the process faulted (assert / overflow / unwrap)
    mapped,           \* per raw handle: its mapped refcount
    device_mapped,    \* device: per raw handle, map_memory calls not yet
                      \* undone by unmap_memory
    windows           \* the mapping windows the caller holds

vars == <<env, overflow_checks, types, heaps, arenas, dynamics, raw, blocks,
          last, panicked, mapped, device_mapped, windows>>

-----------------------------------------------------------------------------
(* Bounds of the exploration.                                              *)

\* live blocks a caller of the small devices holds at once
MaxLive == 2

-----------------------------------------------------------------------------
(* vk::MemoryPropertyFlags and MemoryUsageValue.                           *)

DEVICE_LOCAL     == "DEVICE_LOCAL"
HOST_VISIBLE     == "HOST_VISIBLE"
HOST_COHERENT    == "HOST_COHERENT"
HOST_CACHED      == "HOST_CACHED"
LAZILY_ALLOCATED == "LAZILY_ALLOCATED"

Data     == "Data"
Dynamic  == "Dynamic"
Upload   == "Upload"
Download == "Download"

KiB == 4 * 256
MiB == KiB * KiB

\* Option::None of memory_fitness; every Some(f) has f >= 0
NoFitness == 0 - 1

Max(a, b) == IF a >= b THEN a ELSE b

\* vk::MemoryPropertyFlags::subset
subset(properties, required) == required \subseteq properties

Weight(properties, flag, w) == IF flag \in properties THEN w ELSE 0

\* MemoryUsage::memory_fitness, from the specification: required bits,
\* forbidden bits and the preference order of the fitness table, the first
\* preference weighing most.
memory_fitness(usage, properties) ==
    CASE usage = Data ->
           IF ~subset(properties, {DEVICE_LOCAL}) THEN NoFitness
           ELSE Weight(properties, DEVICE_LOCAL, 4)
                + Weight(properties, HOST_CACHED, 2)
                + Weight(properties, HOST_COHERENT, 1)
      [] usage = Dynamic ->
           IF ~subset(properties, {HOST_VISIBLE})
              \/ LAZILY_ALLOCATED \in properties THEN NoFitness
           ELSE Weight(properties, DEVICE_LOCAL, 4)
                + Weight(properties, HOST_COHERENT, 2)
                + Weight(properties, HOST_CACHED, 1)
      [] usage = Upload ->
           IF ~subset(properties, {HOST_VISIBLE})
              \/ LAZILY_ALLOCATED \in properties
              \/ HOST_CACHED \in properties THEN NoFitness
           ELSE Weight(properties, HOST_COHERENT, 2)
                + Weight(properties, DEVICE_LOCAL, 1)
      [] usage = Download ->
           IF ~subset(properties, {HOST_VISIBLE})
              \/ LAZILY_ALLOCATED \in properties THEN NoFitness
           ELSE Weight(properties, HOST_CACHED, 4)
                + Weight(properties, HOST_COHERENT, 2)
                + Weight(properties, DEVICE_LOCAL, 1)

-----------------------------------------------------------------------------
(* u64 helpers on residue representatives.                                 *)

\* unsigned a < b
ULess(a, b) ==
    IF a >= 0 /\ b >= 0 THEN a < b
    ELSE IF a >= 0 THEN TRUE          \* b is huge
    ELSE IF b >= 0 THEN FALSE         \* a is huge
    ELSE a < b

\* a - b underflows in u64
Underflows(a, b) == ULess(a, b)

-----------------------------------------------------------------------------
(* Devices and callers.  An environment is the input of Heaps::new (memory *)
(* types with their HeapsConfig, heap sizes), the device limit the         *)
(* sub-allocators read, and the request domain of the caller.              *)

NoArena   == [some |-> FALSE, chunk_size |-> 0, max_allocation |-> 0]
NoDynamic == [some |-> FALSE, blocks_per_chunk |-> 0, min_block |-> 0,
              max_block |-> 0]

ArenaConfig(chunk, cap) ==
    [some |-> TRUE, chunk_size |-> chunk, max_allocation |-> cap]
DynamicConfig(n, lo, hi) ==
    [some |-> TRUE, blocks_per_chunk |-> n, min_block |-> lo, max_block |-> hi]

HeapsConfig(a, d) == [arena |-> a, dynamic |-> d]

TypeIn(props, heap, config) ==
    [properties |-> props, heap_index |-> heap, config |-> config]

Req(mask, usage, size, align) ==
    [mask |-> mask, usage |-> usage, size |-> size, align |-> align]

\* a small device: a device-local type, two host-visible+coherent types of
\* equal fitness on different heaps, and a device-local host-visible type
SmallEnv ==
    [name |-> "small",
     heap_sizes |-> <<7, 8>>,
     types_in |-> <<
        TypeIn({DEVICE_LOCAL}, 0,
               HeapsConfig(ArenaConfig(4, 2), DynamicConfig(2, 2, 4))),
        TypeIn({HOST_VISIBLE, HOST_COHERENT}, 1,
               HeapsConfig(ArenaConfig(4, 2), DynamicConfig(2, 2, 4))),
        TypeIn({HOST_VISIBLE, HOST_COHERENT}, 0,
               HeapsConfig(NoArena, NoDynamic)),
        TypeIn({DEVICE_LOCAL, HOST_VISIBLE}, 1,
               HeapsConfig(NoArena, NoDynamic)) >>,
     atom |-> 1,
     requests |-> {Req(1, Upload, 1, 1),
                   Req(1, Data, 1, 1),
                   Req(1, Data, 3, 1),
                   Req(2, Upload, 1, 2),
                   Req(2, Download, 3, 1),
                   Req(6, Upload, 2, 1),
                   Req(14, Dynamic, 1, 1),
                   Req(15, Data, 5, 1)},
     max_live |-> MaxLive,
     min_live_to_free |-> 0]

\* the device of the end-to-end scenarios: 64 MiB device-local heap 0,
\* 32 MiB host-visible+coherent heap 1; arena.max_allocation = 2 MiB; the
\* requests of S1, S2, S3 and S4, and a 4 KiB request whose alignment is
\* above the dynamic allocator's max_block
ScenarioArenaEnv ==
    [name |-> "scenario-arena",
     heap_sizes |-> <<64 * MiB, 32 * MiB>>,
     types_in |-> <<
        TypeIn({DEVICE_LOCAL}, 0,
               HeapsConfig(ArenaConfig(4 * MiB, 2 * MiB),
                           DynamicConfig(32, 4 * KiB, 64 * KiB))),
        TypeIn({HOST_VISIBLE, HOST_COHERENT}, 1,
               HeapsConfig(ArenaConfig(4 * MiB, 2 * MiB),
                           DynamicConfig(32, 4 * KiB, 64 * KiB))) >>,
     atom |-> 64,
     requests |-> {Req(3, Data, 4 * KiB, 256),
                   Req(1, Data, 4 * KiB, 128 * KiB),
                   Req(2, Upload, MiB, 16),
                   Req(3, Download, 64 * MiB, 16),
                   Req(3, Download, 4 * MiB, 16),
                   Req(1, Upload, 4 * MiB, 16)},
     max_live |-> 2,
     min_live_to_free |-> 0]

\* the same device configured without an arena, so that uploads are
\* dedicated; the caller fills heap 1 and frees once it is nearly full (S5)
ScenarioDedicatedEnv ==
    [name |-> "scenario-dedicated",
     heap_sizes |-> <<64 * MiB, 32 * MiB>>,
     types_in |-> <<
        TypeIn({DEVICE_LOCAL}, 0, HeapsConfig(NoArena, NoDynamic)),
        TypeIn({HOST_VISIBLE, HOST_COHERENT}, 1,
               HeapsConfig(NoArena, NoDynamic)) >>,
     atom |-> 64,
     requests |-> {Req(2, Upload, 2 * MiB, 16)},
     max_live |-> 16 + 1,
     min_live_to_free |-> 16 - 2]

\* a device whose non-coherent atom (4) is above the least dynamic block
\* (2): a device-local type and a host-visible+coherent type, both configured
\* with an arena and a dynamic allocator, and a type without configuration
\* that no request names.  Every raw allocation is 8 bytes and the heap
\* sizes are multiples of 8.
HostEnv ==
    [name |-> "host",
     heap_sizes |-> <<16, 24>>,
     types_in |-> <<
        TypeIn({DEVICE_LOCAL}, 0,
               HeapsConfig(ArenaConfig(8, 4), DynamicConfig(4, 2, 4))),
        TypeIn({HOST_VISIBLE, HOST_COHERENT}, 1,
               HeapsConfig(ArenaConfig(8, 4), DynamicConfig(4, 2, 4))),
        TypeIn({HOST_VISIBLE, HOST_COHERENT}, 1,
               HeapsConfig(NoArena, NoDynamic)) >>,
     atom |-> 4,
     requests |-> {Req(1, Data, 1, 1),
                   Req(1, Data, 8, 1),
                   Req(2, Upload, 1, 1),
                   Req(2, Dynamic, 1, 1),
                   Req(2, Download, 8, 1)},
     max_live |-> MaxLive,
     min_live_to_free |-> 0]

Envs == {SmallEnv, ScenarioArenaEnv, ScenarioDedicatedEnv, HostEnv}

\* inputs of Heaps::new outside what a device reports: a memory type that
\* names the heap one past the last, and a table of 33 memory types (32
\* device-local, the last host-visible and coherent)
BadHeapEnv ==
    [name |-> "bad-heap",
     heap_sizes |-> <<8>>,
     types_in |-> <<
        TypeIn({DEVICE_LOCAL}, 0, HeapsConfig(NoArena, NoDynamic)),
        TypeIn({HOST_VISIBLE, HOST_COHERENT}, 1, HeapsConfig(NoArena, NoDynamic)) >>,
     atom |-> 1,
     requests |-> {},
     max_live |-> MaxLive, min_live_to_free |-> 0]

BigTableEnv ==
    [name |-> "big-table",
     heap_sizes |-> <<8, 8>>,
     types_in |-> [k \in 1..33 |->
        IF k = 33
        THEN TypeIn({HOST_VISIBLE, HOST_COHERENT}, 1, HeapsConfig(NoArena, NoDynamic))
        ELSE TypeIn({DEVICE_LOCAL}, 0, HeapsConfig(NoArena, NoDynamic))],
     atom |-> 1,
     requests |-> {Req(1, Upload, 2, 1), Req(2, Upload, 2, 1),
                   Req(1, Data, 2, 1)},
     max_live |-> MaxLive, min_live_to_free |-> 0]

NewEnvs == {HostEnv, BadHeapEnv, BigTableEnv}

\* the environment the variable env names
Env == CHOOSE e \in Envs \cup NewEnvs : e.name = env

-----------------------------------------------------------------------------
(* Heaps::new, MemoryHeap::new, MemoryType::new.                           *)

MemoryHeap_new(size) == [size |-> size, used |-> 0]

\* from the specification: ArenaAllocator::properties_required
\* (host-visible) and DynamicAllocator::properties_required (none)
ArenaPropertiesRequired   == {HOST_VISIBLE}
DynamicPropertiesRequired == {}

\* a constructor that takes the configured sub-allocators whatever the
\* properties
MemoryType_new_unchecked(heap_index, properties, config) ==
    [heap_index |-> heap_index,
     properties |-> properties,
     arena   |-> config.arena,
     dynamic |-> config.dynamic]

MemoryType_new(heap_index, properties, config) ==
    [heap_index |-> heap_index,
     properties |-> properties,
     arena   |-> IF subset(properties, ArenaPropertiesRequired)
                 THEN config.arena ELSE NoArena,
     dynamic |-> IF subset(properties, DynamicPropertiesRequired)
                 THEN config.dynamic ELSE NoDynamic]

\* util: the value fits u32, the value fits usize (64-bit target)
\* (n < 2^32 and n < 2^64, written with 16-bit digits)
fits_u32(n)   == n \div (2 ^ 16) < 2 ^ 16
fits_usize(n) == ((n \div (2 ^ 16)) \div (2 ^ 16)) \div (2 ^ 16) < 2 ^ 16

\* an assert that lets the index one past the last heap through
NewPanics_off_by_one(e) ==
    \E k \in 1..Len(e.types_in) :
        ~(e.types_in[k].heap_index <= Len(e.heap_sizes))

\* assert!(heap_index < heaps.len()) of Heaps::new
NewPanics(e) ==
    \E k \in 1..Len(e.types_in) :
        ~(e.types_in[k].heap_index < Len(e.heap_sizes))

\* the three asserts of Heaps::new, for every entry of the type table
Heaps_new_panics(e) ==
    \/ \E k \in 1..Len(e.types_in) :
          ~fits_u32(k - 1) \/ ~fits_usize(e.types_in[k].heap_index)
    \/ NewPanics(e)

\* memory type `index` is entry index + 1 of the input sequence
Heaps_new_types(e) ==
    [i \in 0..(Len(e.types_in) - 1) |->
        MemoryType_new(e.types_in[i + 1].heap_index,
                       e.types_in[i + 1].properties,
                       e.types_in[i + 1].config)]

Heaps_new_heaps(e) ==
    [h \in 0..(Len(e.heap_sizes) - 1) |-> MemoryHeap_new(e.heap_sizes[h + 1])]

NoCall == [op |-> "none", mask |-> 0, usage |-> Data, size |-> 0, align |-> 0,
           result |-> "none", index |-> NoFitness, flavor |-> "none",
           allocated |-> 0]

\* the raw handles the device can hand out to this caller: one per live
\* block and one per retained arena chunk
Memories == 0..(Env.max_live + Len(Env.types_in))

Init ==
    /\ env \in {e.name : e \in {x \in Envs : ~NewPanics(x)}}
    /\ overflow_checks \in BOOLEAN
    /\ types = Heaps_new_types(Env)
    /\ heaps = Heaps_new_heaps(Env)
    /\ arenas = [i \in DOMAIN types |-> <<>>]
    /\ dynamics = [i \in DOMAIN types |-> <<>>]
    /\ raw = {}
    /\ blocks = {}
    /\ last = NoCall
    /\ panicked = FALSE
    /\ mapped = [m \in Memories |-> 0]
    /\ device_mapped = [m \in Memories |-> 0]
    /\ windows = {}

-----------------------------------------------------------------------------
(* The device and the three sub-allocators, from the specification         *)
(* (sections 4.3 to 4.5).                                                  *)
(* A sub-allocator call yields                                             *)
(*   [ok, err, block, allocated, arena, dynamic, raw]                      *)
(* : the Result, the bytes newly taken from the device, and the            *)
(* allocator's and the device's state after the call.  devOk is the        *)
(* device's answer to allocate_memory, should the call need one.           *)

RECURSIVE NextPowerOfTwo(_, _)
NextPowerOfTwo(n, p) == IF p >= n THEN p ELSE NextPowerOfTwo(n, 2 * p)

AlignUp(x, a) == ((x + a - 1) \div a) * a

\* the handle the device hands out: the least one not live
FreshMemory(live) ==
    CHOOSE n \in 0..Cardinality(live) :
        n \notin live /\ \A m \in 0..(n - 1) : m \in live

NoBlock == [memory_index |-> 0, flavor |-> "none", memory |-> 0,
            offset |-> 0, size |-> 0, class |-> 0]

AllocErr(ti, err) ==
    [ok |-> FALSE, err |-> err, block |-> NoBlock, allocated |-> 0,
     arena |-> arenas[ti], dynamic |-> dynamics[ti], raw |-> raw]

\* DedicatedAllocator::alloc: one raw allocation per block
dedicated_alloc(ti, size, align, devOk) ==
    IF ~devOk THEN AllocErr(ti, "OutOfDeviceMemory")
    ELSE LET m == FreshMemory(raw) IN
         [ok |-> TRUE, err |-> "none",
          block |-> [memory_index |-> ti, flavor |-> "Dedicated",
                     memory |-> m, offset |-> 0, size |-> size, class |-> 0],
          allocated |-> size,
          arena |-> arenas[ti], dynamic |-> dynamics[ti],
          raw |-> raw \cup {m}]

\* DedicatedAllocator::free: the raw handle is released at once
dedicated_free(ti, block) ==
    [freed |-> block.size, arena |-> arenas[ti], dynamic |-> dynamics[ti],
     raw |-> raw \ {block.memory}]

\* ArenaAllocator::alloc: bump the tail chunk's cursor; a full tail makes a
\* new chunk of chunk_size and the request is retried on it
arena_alloc(ti, size, align, devOk) ==
    LET cfg    == types[ti].arena
        chunks == arenas[ti]
        n      == Len(chunks)
        a      == Max(align, IF HOST_VISIBLE \in types[ti].properties
                             THEN Env.atom ELSE 1)
        start  == IF n > 0 THEN AlignUp(chunks[n].cursor, a) ELSE 0
    IN  IF n > 0 /\ start + size <= chunks[n].size
        THEN [ok |-> TRUE, err |-> "none",
              block |-> [memory_index |-> ti, flavor |-> "Arena",
                         memory |-> chunks[n].memory, offset |-> start,
                         size |-> size, class |-> 0],
              allocated |-> 0,
              arena |-> [chunks EXCEPT ![n].cursor = start + size,
                                       ![n].used_blocks = @ + 1],
              dynamic |-> dynamics[ti], raw |-> raw]
        ELSE IF ~devOk THEN AllocErr(ti, "OutOfDeviceMemory")
        ELSE LET m == FreshMemory(raw) IN
             [ok |-> TRUE, err |-> "none",
              block |-> [memory_index |-> ti, flavor |-> "Arena",
                         memory |-> m, offset |-> 0, size |-> size,
                         class |-> 0],
              allocated |-> cfg.chunk_size,
              arena |-> Append(chunks, [memory |-> m,
                                        size |-> cfg.chunk_size,
                                        cursor |-> size,
                                        used_blocks |-> 1]),
              dynamic |-> dynamics[ti], raw |-> raw \cup {m}]

\* drained chunks leave from the head of the deque; the tail stays
RECURSIVE ArenaCleanup(_)
ArenaCleanup(chunks) ==
    IF Len(chunks) > 1 /\ chunks[1].used_blocks = 0
    THEN ArenaCleanup(Tail(chunks))
    ELSE chunks

RECURSIVE SumSizes(_)
SumSizes(chunks) ==
    IF chunks = <<>> THEN 0 ELSE chunks[1].size + SumSizes(Tail(chunks))

\* ArenaAllocator::free
arena_free(ti, block) ==
    LET chunks == arenas[ti]
        k      == CHOOSE j \in 1..Len(chunks) : chunks[j].memory = block.memory
        dec    == [chunks EXCEPT ![k].used_blocks = @ - 1]
        kept   == ArenaCleanup(dec)
        gone   == SubSeq(dec, 1, Len(dec) - Len(kept))
    IN  [freed |-> SumSizes(gone), arena |-> kept, dynamic |-> dynamics[ti],
         raw |-> raw \ {gone[j].memory : j \in 1..Len(gone)}]

\* DynamicAllocator::max_allocation
dynamic_max_allocation(cfg) == cfg.max_block

\* DynamicAllocator::alloc: the size class is max(size, align, min_block)
\* rounded up to a power of two; the first chunk of the class with a free
\* slot serves, else a new chunk of class * blocks_per_chunk bytes
dynamic_alloc(ti, size, align, devOk) ==
    LET cfg    == types[ti].dynamic
        chunks == dynamics[ti]
        class  == NextPowerOfTwo(Max(Max(size, align), cfg.min_block), 1)
        slots  == 0..(cfg.blocks_per_chunk - 1)
        open   == {j \in 1..Len(chunks) :
                      chunks[j].class = class /\ chunks[j].used # slots}
    IN  IF open # {}
        THEN LET j    == CHOOSE x \in open : \A y \in open : x <= y
                 free == slots \ chunks[j].used
                 slot == CHOOSE x \in free : \A y \in free : x <= y
             IN [ok |-> TRUE, err |-> "none",
                 block |-> [memory_index |-> ti, flavor |-> "Dynamic",
                            memory |-> chunks[j].memory,
                            offset |-> slot * class, size |-> class,
                            class |-> class],
                 allocated |-> 0,
                 arena |-> arenas[ti],
                 dynamic |-> [chunks EXCEPT ![j].used = @ \cup {slot}],
                 raw |-> raw]
        ELSE IF ~devOk THEN AllocErr(ti, "OutOfDeviceMemory")
        ELSE LET m == FreshMemory(raw) IN
             [ok |-> TRUE, err |-> "none",
              block |-> [memory_index |-> ti, flavor |-> "Dynamic",
                         memory |-> m, offset |-> 0, size |-> class,
                         class |-> class],
              allocated |-> class * cfg.blocks_per_chunk,
              arena |-> arenas[ti],
              dynamic |-> Append(chunks, [class |-> class, memory |-> m,
                                          used |-> {0}]),
              raw |-> raw \cup {m}]

\* DynamicAllocator::free: clear the slot; an entirely free chunk goes back
\* to the device
dynamic_free(ti, block) ==
    LET cfg    == types[ti].dynamic
        chunks == dynamics[ti]
        j      == CHOOSE x \in 1..Len(chunks) : chunks[x].memory = block.memory
        slot   == block.offset \div block.class
        left   == chunks[j].used \ {slot}
    IN  IF left = {}
        THEN [freed |-> block.class * cfg.blocks_per_chunk,
              arena |-> arenas[ti],
              dynamic |-> SubSeq(chunks, 1, j - 1)
                          \o SubSeq(chunks, j + 1, Len(chunks)),
              raw |-> raw \ {block.memory}]
        ELSE [freed |-> 0, arena |-> arenas[ti],
              dynamic |-> [chunks EXCEPT ![j].used = left], raw |-> raw]

-----------------------------------------------------------------------------
(* MemoryType::alloc and MemoryType::free (heaps.rs).                      *)

\* a match without the max_allocation guards
Route_uncapped(ti, usage, size) ==
    LET mt == types[ti] IN
    IF usage \in {Upload, Download} /\ mt.arena.some THEN "Arena"
    ELSE IF usage \in {Dynamic, Data} /\ mt.dynamic.some THEN "Dynamic"
    ELSE "Dedicated"

\* a match whose arena arm does not test arena.max_allocation()
Route_arena_uncapped(ti, usage, size) ==
    LET mt == types[ti] IN
    IF usage \in {Upload, Download} /\ mt.arena.some
    THEN "Arena"
    ELSE IF usage \in {Dynamic, Data} /\ mt.dynamic.some
            /\ size <= dynamic_max_allocation(mt.dynamic)
    THEN "Dynamic"
    ELSE "Dedicated"

\* a match that does not look whether the sub-allocator is there
Route_absent(ti, usage, size) ==
    IF usage \in {Upload, Download} THEN "Arena"
    ELSE IF usage \in {Dynamic, Data} THEN "Dynamic"
    ELSE "Dedicated"

\* a match whose arm for Data is missing
Route_data_dedicated(ti, usage, size) ==
    LET mt == types[ti] IN
    IF usage \in {Upload, Download} /\ mt.arena.some
       /\ size <= mt.arena.max_allocation
    THEN "Arena"
    ELSE IF usage = Dynamic /\ mt.dynamic.some
            /\ size <= dynamic_max_allocation(mt.dynamic)
    THEN "Dynamic"
    ELSE "Dedicated"

\* the match of MemoryType::alloc: which sub-allocator serves the request
Route(ti, usage, size) ==
    LET mt == types[ti] IN
    IF usage \in {Upload, Download} /\ mt.arena.some
       /\ size <= mt.arena.max_allocation
    THEN "Arena"
    ELSE IF usage = Dynamic /\ mt.dynamic.some
            /\ size <= dynamic_max_allocation(mt.dynamic)
    THEN "Dynamic"
    ELSE IF usage = Data /\ mt.dynamic.some
            /\ size <= dynamic_max_allocation(mt.dynamic)
    THEN "Dynamic"
    ELSE "Dedicated"

\* an alloc that does not pass the request's align on
MemoryType_alloc_unaligned(ti, usage, size, align, devOk) ==
    CASE Route(ti, usage, size) = "Arena"   -> arena_alloc(ti, size, 1, devOk)
      [] Route(ti, usage, size) = "Dynamic" -> dynamic_alloc(ti, size, 1, devOk)
      [] OTHER -> dedicated_alloc(ti, size, 1, devOk)

\* an alloc whose dynamic arms return the request's size as allocated
MemoryType_alloc_dynamic_size(ti, usage, size, align, devOk) ==
    CASE Route(ti, usage, size) = "Arena"   -> arena_alloc(ti, size, align, devOk)
      [] Route(ti, usage, size) = "Dynamic" ->
            [dynamic_alloc(ti, size, align, devOk) EXCEPT
                !.allocated = IF @ > 0 THEN size ELSE 0]
      [] OTHER -> dedicated_alloc(ti, size, align, devOk)

MemoryType_alloc(ti, usage, size, align, devOk) ==
    CASE Route(ti, usage, size) = "Arena"   -> arena_alloc(ti, size, align, devOk)
      [] Route(ti, usage, size) = "Dynamic" -> dynamic_alloc(ti, size, align, devOk)
      [] OTHER -> dedicated_alloc(ti, size, align, devOk)

\* Option::unwrap of MemoryType::free on an absent sub-allocator
FreeUnwrapPanics(ti, block) ==
    \/ block.flavor = "Arena" /\ ~types[ti].arena.some
    \/ block.flavor = "Dynamic" /\ ~types[ti].dynamic.some

\* a free that hands every variant to the dedicated allocator
MemoryType_free_all_dedicated(ti, block) == dedicated_free(ti, block)

\* a free whose arena arm also releases the raw handle of the block
MemoryType_free_arena_releases(ti, block) ==
    CASE block.flavor = "Dedicated" -> dedicated_free(ti, block)
      [] block.flavor = "Arena"     ->
            [arena_free(ti, block) EXCEPT !.raw = @ \ {block.memory}]
      [] block.flavor = "Dynamic"   -> dynamic_free(ti, block)

\* a free whose arena arm drops the chunks the arena hands back
MemoryType_free_arena_stale(ti, block) ==
    CASE block.flavor = "Dedicated" -> dedicated_free(ti, block)
      [] block.flavor = "Arena"     ->
            [arena_free(ti, block) EXCEPT !.arena = arenas[ti]]
      [] block.flavor = "Dynamic"   -> dynamic_free(ti, block)

MemoryType_free(ti, block) ==
    CASE block.flavor = "Dedicated" -> dedicated_free(ti, block)
      [] block.flavor = "Arena"     -> arena_free(ti, block)
      [] block.flavor = "Dynamic"   -> dynamic_free(ti, block)

-----------------------------------------------------------------------------
(* MemoryHeap and Heaps::allocate, allocate_from, free (heaps.rs).         *)

\* MemoryHeap::available: size - used in u64
available(h) == h.size - h.used

\* the subtraction of available() overflows and the build checks it
AvailablePanics(h) == overflow_checks /\ Underflows(h.size, h.used)

\* 1u32 << index with index >= 32: a build with overflow checks panics
ShiftPanics(index) == overflow_checks /\ index >= 32

\* bit k of n (the shift is done in two halves)
Bit(n, k) == ((n \div (2 ^ (k \div 2))) \div (2 ^ (k - (k \div 2)))) % 2 = 1

\* a mask test in unbounded arithmetic
MaskBit_unbounded(mask, index) == Bit(mask, index)

\* (mask & (1u32 << index)) != 0; without overflow checks the shift takes
\* the index modulo 32
MaskBit(mask, index) == Bit(mask, index % 32)

\* debug_assert!(fits_u32(self.types.len())) and the shifts of the mask
\* filter, which runs over every type index
MaskFilterPanics ==
    \/ overflow_checks /\ ~fits_u32(Cardinality(DOMAIN types))
    \/ \E i \in DOMAIN types : ShiftPanics(i)

TypeIndices == [k \in 1..Cardinality(DOMAIN types) |-> k - 1]

\* a selection that forgets the mask filter
suitable_types_unmasked(mask, usage) ==
    SelectSeq(TypeIndices,
              LAMBDA i : memory_fitness(usage, types[i].properties)
                         # NoFitness)

\* a selection that forgets the fitness filter
suitable_types_unfit(mask, usage) ==
    SelectSeq(TypeIndices, LAMBDA i : MaskBit(mask, i))

\* the mask filter and the fitness filter_map, in index order
suitable_types(mask, usage) ==
    SelectSeq(TypeIndices,
              LAMBDA i : /\ MaskBit(mask, i)
                         /\ memory_fitness(usage, types[i].properties)
                            # NoFitness)

\* a budget filter that admits like allocate_from: available() >= size
budget_filter_exact(i, size, align) ==
    ~ULess(available(heaps[types[i].heap_index]), size)

\* the budget filter: heaps[mt.heap_index].available() > size + align
budget_filter(i, size, align) ==
    ULess(size + align, available(heaps[types[i].heap_index]))

\* a selection by least fitness
min_by_key(cands, usage) ==
    LET fit(k) == memory_fitness(usage, types[cands[k]].properties)
        k == CHOOSE x \in 1..Len(cands) :
                 /\ \A y \in 1..Len(cands) : fit(x) <= fit(y)
                 /\ \A y \in 1..(x - 1) : fit(x) < fit(y)
    IN  cands[k]

\* a selection that returns the first of several maximal elements
max_by_key_first(cands, usage) ==
    LET fit(k) == memory_fitness(usage, types[cands[k]].properties)
        k == CHOOSE x \in 1..Len(cands) :
                 /\ \A y \in 1..Len(cands) : fit(y) <= fit(x)
                 /\ \A y \in 1..(x - 1) : fit(y) < fit(x)
    IN  cands[k]

\* Iterator::max_by_key: of several maximal elements the last is returned
max_by_key(cands, usage) ==
    LET fit(k) == memory_fitness(usage, types[cands[k]].properties)
        k == CHOOSE x \in 1..Len(cands) :
                 /\ \A y \in 1..Len(cands) : fit(y) <= fit(x)
                 /\ \A y \in (x + 1)..Len(cands) : fit(y) < fit(x)
    IN  cands[k]

\* a charge made twice, by the sub-allocator's caller and by allocate_from
charge_twice(used, res) ==
    IF res.ok THEN used + res.allocated + res.allocated ELSE used

\* a charge of the block's size instead of the bytes taken from the device
charge_block_size(used, res) == IF res.ok THEN used + res.block.size ELSE used

\* memory_heap.used += allocated, reached only when alloc returned Ok
charge(used, res) == IF res.ok THEN used + res.allocated ELSE used

Outcome(result, index, res, hs) ==
    [result |-> result, index |-> index, block |-> res.block,
     allocated |-> res.allocated, heaps |-> hs, arena |-> res.arena,
     dynamic |-> res.dynamic, raw |-> res.raw]

NoOutcome(result, index) ==
    [result |-> result, index |-> index, block |-> NoBlock, allocated |-> 0,
     heaps |-> heaps, arena |-> <<>>, dynamic |-> <<>>, raw |-> raw]

\* an allocate_from that charges the heap before the sub-allocator answers
allocate_from_charge_first(memory_index, usage, size, align, devOk) ==
    LET hi  == types[memory_index].heap_index
        res == MemoryType_alloc(memory_index, usage, size, align, devOk)
    IN  IF AvailablePanics(heaps[hi]) THEN NoOutcome("panic", memory_index)
        ELSE IF ULess(available(heaps[hi]), size)
        THEN NoOutcome("HeapsExhausted", memory_index)
        ELSE Outcome(IF res.ok THEN "ok" ELSE res.err, memory_index, res,
                     [heaps EXCEPT ![hi].used =
                         IF res.ok THEN @ + res.allocated ELSE @ + size])

allocate_from(memory_index, usage, size, align, devOk) ==
    LET hi  == types[memory_index].heap_index
        res == MemoryType_alloc(memory_index, usage, size, align, devOk)
    IN  IF AvailablePanics(heaps[hi]) THEN NoOutcome("panic", memory_index)
        ELSE IF ULess(available(heaps[hi]), size)
        THEN NoOutcome("HeapsExhausted", memory_index)
        ELSE Outcome(IF res.ok THEN "ok" ELSE res.err, memory_index, res,
                     [heaps EXCEPT ![hi].used = charge(@, res)])

allocate(mask, usage, size, align, devOk) ==
    LET suitable == suitable_types(mask, usage)
        fitting  == SelectSeq(suitable,
                              LAMBDA i : budget_filter(i, size, align))
    IN  IF MaskFilterPanics THEN NoOutcome("panic", NoFitness)
        ELSE IF suitable = <<>> THEN NoOutcome("NoSuitableMemory", NoFitness)
        ELSE IF \E k \in 1..Len(suitable) :
                    AvailablePanics(heaps[types[suitable[k]].heap_index])
        THEN NoOutcome("panic", NoFitness)
        ELSE IF fitting = <<>> THEN NoOutcome("HeapsExhausted", NoFitness)
        ELSE allocate_from(max_by_key(fitting, usage), usage, size, align,
                           devOk)

\* a free that forgets the heap accounting
discharge_forgotten(used, freed) == used

\* a free that saturates at zero instead of subtracting in u64
discharge_saturating(used, freed) == IF used < freed THEN 0 ELSE used - freed

\* memory_heap.used -= freed
discharge(used, freed) == used - freed

-----------------------------------------------------------------------------
(* The operations of a caller.                                             *)

\* the Heaps value exists: no fault so far, and dispose has not consumed it
Alive == ~panicked /\ last.op # "dispose"

Allocate(mask, usage, size, align, devOk) ==
    /\ Alive
    /\ Cardinality(blocks) < Env.max_live
    /\ \E out \in {allocate(mask, usage, size, align, devOk)} :
           /\ last' = [op |-> "allocate", mask |-> mask, usage |-> usage,
                       size |-> size, align |-> align,
                       result |-> out.result, index |-> out.index,
                       flavor |-> out.block.flavor,
                       allocated |-> out.allocated]
           /\ panicked' = (out.result = "panic")
           /\ heaps' = out.heaps
           /\ raw' = out.raw
           /\ arenas' = IF out.result = "ok"
                        THEN [arenas EXCEPT ![out.index] = out.arena]
                        ELSE arenas
           /\ dynamics' = IF out.result = "ok"
                          THEN [dynamics EXCEPT ![out.index] = out.dynamic]
                          ELSE dynamics
           /\ blocks' = IF out.result = "ok" THEN blocks \cup {out.block}
                        ELSE blocks
    /\ UNCHANGED <<env, overflow_checks, types, mapped, device_mapped,
                   windows>>

\* free takes the block by value: no window borrows it
Free(block) ==
    /\ Alive
    /\ block \in blocks
    /\ \A w \in windows : w.block # block
    /\ Cardinality(blocks) >= Env.min_live_to_free
    /\ \E ti \in {block.memory_index} :
       \E hi \in {types[ti].heap_index} :
       \E out \in {MemoryType_free(ti, block)} :
       \E fault \in {FreeUnwrapPanics(ti, block)
                     \/ (overflow_checks
                         /\ Underflows(heaps[hi].used, out.freed))} :
           /\ last' = [op |-> "free", mask |-> 0, usage |-> Data,
                       size |-> 0, align |-> 0,
                       result |-> IF fault THEN "panic" ELSE "ok",
                       index |-> ti, flavor |-> block.flavor,
                       allocated |-> 0]
           /\ panicked' = fault
           /\ IF fault
              THEN UNCHANGED <<heaps, arenas, dynamics, raw, blocks>>
              ELSE /\ heaps' = [heaps EXCEPT
                                  ![hi].used = discharge(@, out.freed)]
                   /\ arenas' = [arenas EXCEPT ![ti] = out.arena]
                   /\ dynamics' = [dynamics EXCEPT ![ti] = out.dynamic]
                   /\ raw' = out.raw
                   /\ blocks' = blocks \ {block}
    /\ UNCHANGED <<env, overflow_checks, types, mapped, device_mapped,
                   windows>>

-----------------------------------------------------------------------------
(* Heaps::dispose and MemoryType::dispose (heaps.rs); the dispose of the   *)
(* arena and of the dynamic allocator from the specification (4.1, 5): a   *)
(* sub-allocator that still holds a live block faults, else it releases    *)
(* every chunk it retains.                                                 *)

arena_dispose_panics(ti) ==
    \E k \in 1..Len(arenas[ti]) : arenas[ti][k].used_blocks > 0

\* a dynamic chunk exists only while one of its slots is taken
dynamic_dispose_panics(ti) == dynamics[ti] # <<>>

\* MemoryType::dispose: the arena, then the dynamic allocator, where
\* present; the dedicated allocator is dropped without a call
MemoryType_dispose_panics(ti) ==
    \/ types[ti].arena.some /\ arena_dispose_panics(ti)
    \/ types[ti].dynamic.some /\ dynamic_dispose_panics(ti)

\* the types whose arena has released its chunks when dispose returns or
\* faults: `for mt in self.types` runs in index order up to the first fault
ArenasDisposed ==
    {i \in DOMAIN types :
        /\ types[i].arena.some
        /\ ~arena_dispose_panics(i)
        /\ \A j \in DOMAIN types : j < i => ~MemoryType_dispose_panics(j)}

Dispose ==
    /\ Alive
    /\ \E fault \in {\E i \in DOMAIN types : MemoryType_dispose_panics(i)} :
           /\ last' = [op |-> "dispose", mask |-> 0, usage |-> Data,
                       size |-> 0, align |-> 0,
                       result |-> IF fault THEN "panic" ELSE "ok",
                       index |-> NoFitness, flavor |-> "none",
                       allocated |-> 0]
           /\ panicked' = fault
    /\ arenas' = [i \in DOMAIN types |->
                    IF i \in ArenasDisposed THEN <<>> ELSE arenas[i]]
    /\ raw' = raw \ UNION {{arenas[i][k].memory : k \in 1..Len(arenas[i])} :
                              i \in ArenasDisposed}
    /\ UNCHANGED <<env, overflow_checks, types, heaps, dynamics, blocks,
                   mapped, device_mapped, windows>>

Next ==
    \/ \E r \in Env.requests, devOk \in BOOLEAN :
          Allocate(r.mask, r.usage, r.size, r.align, devOk)
    \/ \E block \in blocks : Free(block)

Spec == Init /\ [][Next]_vars

-----------------------------------------------------------------------------
(* Heaps::free on a block of another Heaps instance.                       *)

\* blocks another Heaps of the same shape could have returned: a raw handle
\* this instance never held, and any memory_index up to one past this
\* instance's type table
ForeignBlocks ==
    {[memory_index |-> i, flavor |-> f,
      memory |-> Env.max_live + Len(Env.types_in) + 1,
      offset |-> 0, size |-> 1, class |-> 0] :
        i \in 0..Len(Env.types_in), f \in {"Dedicated", "Arena", "Dynamic"}}

\* self.types[memory_index as usize]: the index is out of bounds
TypeIndexPanics(memory_index) == memory_index \notin DOMAIN types

\* Heaps::free with a foreign block.  What a present arena or dynamic
\* allocator does with a block of chunks it never made is not determined
\* by heaps.rs nor by the specification: those calls are left out.
FreeForeign(block) ==
    /\ Alive
    /\ block \in ForeignBlocks
    /\ block.memory_index \in DOMAIN types =>
          /\ block.flavor = "Arena" => ~types[block.memory_index].arena.some
          /\ block.flavor = "Dynamic" => ~types[block.memory_index].dynamic.some
    /\ \E fault \in
            {IF TypeIndexPanics(block.memory_index) THEN TRUE
             ELSE IF FreeUnwrapPanics(block.memory_index, block) THEN TRUE
             ELSE overflow_checks
                  /\ Underflows(heaps[types[block.memory_index].heap_index].used,
                                dedicated_free(block.memory_index, block).freed)} :
           /\ last' = [op |-> "free_foreign", mask |-> 0, usage |-> Data,
                       size |-> block.size, align |-> 0,
                       result |-> IF fault THEN "panic" ELSE "ok",
                       index |-> block.memory_index, flavor |-> block.flavor,
                       allocated |-> 0]
           /\ panicked' = fault
           /\ IF fault
              THEN UNCHANGED <<heaps, raw>>
              ELSE \E ti \in {block.memory_index} :
                   \E out \in {dedicated_free(ti, block)} :
                      /\ heaps' = [heaps EXCEPT
                                     ![types[ti].heap_index].used =
                                        discharge(@, out.freed)]
                      /\ raw' = out.raw
    /\ UNCHANGED <<env, overflow_checks, types, arenas, dynamics, blocks,
                   mapped, device_mapped, windows>>

\* a caller of the host device that breaks the contract of free once, as
\* its last call
InitForeign == Init /\ env = HostEnv.name

NextForeign ==
    \/ last.op # "free_foreign" /\ Next
    \/ \E block \in ForeignBlocks :
          last.op # "free_foreign" /\ FreeForeign(block)

SpecForeign == InitForeign /\ [][NextForeign]_vars

-----------------------------------------------------------------------------
(* MemoryBlock::map and MemoryBlock::unmap (heaps.rs); the mapping rules   *)
(* of the block variants and of the mapping window from the specification  *)
(* (4.6).                                                                  *)

\* Block::properties
block_properties(block) == types[block.memory_index].properties

\* the range start..end lies within Block::range
Contains(block, start, end) ==
    block.offset <= start /\ end <= block.offset + block.size

MapErr(err) ==
    [result |-> err, mapped |-> mapped, device_mapped |-> device_mapped]

\* Block::map of a variant: the range test, the host-visible test, then
\* the handle's refcount; the first window maps the handle on the device
block_map(block, start, end) ==
    IF ~Contains(block, start, end) THEN MapErr("OutsideBlock")
    ELSE IF HOST_VISIBLE \notin block_properties(block)
    THEN MapErr("HostInvisible")
    ELSE [result |-> "ok",
          mapped |-> [mapped EXCEPT ![block.memory] = @ + 1],
          device_mapped |->
              IF mapped[block.memory] = 0
              THEN [device_mapped EXCEPT ![block.memory] = @ + 1]
              ELSE device_mapped]

\* a map whose Dynamic arm asks for the whole block
MemoryBlock_map_whole_dynamic(block, start, end) ==
    CASE block.flavor = "Dedicated" -> block_map(block, start, end)
      [] block.flavor = "Arena"     -> block_map(block, start, end)
      [] block.flavor = "Dynamic"   ->
            block_map(block, block.offset, block.offset + block.size)

\* MemoryBlock::map: any_block!(&mut self.block => block.map(device, range))
MemoryBlock_map(block, start, end) ==
    CASE block.flavor = "Dedicated" -> block_map(block, start, end)
      [] block.flavor = "Arena"     -> block_map(block, start, end)
      [] block.flavor = "Dynamic"   -> block_map(block, start, end)

\* Block::unmap of a variant.  The caller holds no window of the block
\* (unmap takes &mut self), and a handle's mapping is released by the drop
\* of its last window: nothing is left for unmap to release.
block_unmap(block) ==
    [mapped |-> mapped, device_mapped |-> device_mapped]

\* an unmap that unmaps the block's raw handle on the device
MemoryBlock_unmap_device(block) ==
    [mapped |-> mapped,
     device_mapped |-> [device_mapped EXCEPT
                           ![block.memory] = IF @ > 0 THEN @ - 1 ELSE @]]

\* MemoryBlock::unmap: any_block!(&mut self.block => block.unmap(device))
MemoryBlock_unmap(block) ==
    CASE block.flavor = "Dedicated" -> block_unmap(block)
      [] block.flavor = "Arena"     -> block_unmap(block)
      [] block.flavor = "Dynamic"   -> block_unmap(block)

\* the drop of a mapping window: the refcount goes down, and at zero the
\* handle is unmapped on the device
window_drop(w) ==
    [mapped |-> [mapped EXCEPT ![w.block.memory] = @ - 1],
     device_mapped |->
         IF mapped[w.block.memory] = 1
         THEN [device_mapped EXCEPT ![w.block.memory] = @ - 1]
         ELSE device_mapped]

\* the ranges a caller asks for: the first byte of the block, and one byte
\* more than the block
MapRanges(block) ==
    {<<block.offset, block.offset + 1>>,
     <<block.offset, block.offset + block.size + 1>>}

\* map borrows the block mutably for the life of the window it returns: a
\* block has at most one window
Map(block, start, end) ==
    /\ Alive
    /\ block \in blocks
    /\ \A w \in windows : w.block # block
    /\ \E out \in {MemoryBlock_map(block, start, end)} :
           /\ last' = [op |-> "map", mask |-> 0, usage |-> Data,
                       size |-> 0, align |-> 0, result |-> out.result,
                       index |-> block.memory_index,
                       flavor |-> block.flavor, allocated |-> 0,
                       block |-> block, start |-> start, end |-> end]
           /\ mapped' = out.mapped
           /\ device_mapped' = out.device_mapped
           /\ windows' = IF out.result = "ok"
                         THEN windows \cup {[block |-> block, start |-> start,
                                             end |-> end]}
                         ELSE windows
    /\ UNCHANGED <<env, overflow_checks, types, heaps, arenas, dynamics, raw,
                   blocks, panicked>>

Unmap(block) ==
    /\ Alive
    /\ block \in blocks
    /\ \A w \in windows : w.block # block
    /\ \E out \in {MemoryBlock_unmap(block)} :
           /\ mapped' = out.mapped
           /\ device_mapped' = out.device_mapped
    /\ last' = [op |-> "unmap", mask |-> 0, usage |-> Data, size |-> 0,
                align |-> 0, result |-> "ok", index |-> block.memory_index,
                flavor |-> block.flavor, allocated |-> 0]
    /\ UNCHANGED <<env, overflow_checks, types, heaps, arenas, dynamics, raw,
                   blocks, panicked, windows>>

DropWindow(w) ==
    /\ ~panicked
    /\ w \in windows
    /\ \E out \in {window_drop(w)} :
           /\ mapped' = out.mapped
           /\ device_mapped' = out.device_mapped
    /\ windows' = windows \ {w}
    /\ last' = [op |-> "drop", mask |-> 0, usage |-> Data, size |-> 0,
                align |-> 0, result |-> "ok", index |-> w.block.memory_index,
                flavor |-> w.block.flavor, allocated |-> 0]
    /\ UNCHANGED <<env, overflow_checks, types, heaps, arenas, dynamics, raw,
                   blocks, panicked>>

\* a caller of the host device that also maps its blocks
InitMap == Init /\ env = HostEnv.name

NextMap ==
    \/ Next
    \/ \E block \in blocks : \E r \in MapRanges(block) :
          Map(block, r[1], r[2])
    \/ \E block \in blocks : Unmap(block)
    \/ \E w \in windows : DropWindow(w)

SpecMap == InitMap /\ [][NextMap]_vars

\* a caller that also tears the allocator down
(* Heaps::new as a call: the caller starts with nothing built, hands the   *)
(* type table and the heap sizes of its device to Heaps::new, and goes on  *)
(* with allocate and free on what it built.                                *)

New ==
    /\ last.op = "none" /\ DOMAIN heaps = {} /\ ~panicked
    /\ \E fault \in {Heaps_new_panics(Env)} :
          /\ last' = [NoCall EXCEPT !.op = "new",
                         !.result = IF fault THEN "panic" ELSE "ok"]
          /\ panicked' = fault
          /\ IF fault
             THEN UNCHANGED <<types, heaps, arenas, dynamics>>
             ELSE /\ types' = Heaps_new_types(Env)
                  /\ heaps' = Heaps_new_heaps(Env)
                  /\ arenas' = [i \in DOMAIN types' |-> <<>>]
                  /\ dynamics' = [i \in DOMAIN types' |-> <<>>]
    /\ UNCHANGED <<env, overflow_checks, raw, blocks, mapped, device_mapped,
                   windows>>

InitNew ==
    /\ env \in {e.name : e \in NewEnvs}
    /\ overflow_checks \in BOOLEAN
    /\ types = <<>>
    /\ heaps = <<>>
    /\ arenas = <<>>
    /\ dynamics = <<>>
    /\ raw = {}
    /\ blocks = {}
    /\ last = NoCall
    /\ panicked = FALSE
    /\ mapped = [m \in Memories |-> 0]
    /\ device_mapped = [m \in Memories |-> 0]
    /\ windows = {}

NextNew ==
    \/ New
    \/ last.op # "none" /\ Next

SpecNew == InitNew /\ [][NextNew]_vars

NextDispose ==
    \/ Next
    \/ Dispose

SpecDispose == Init /\ [][NextDispose]_vars

-----------------------------------------------------------------------------
(* Properties.                                                             *)

AllocCall == last.op = "allocate"
AllocOk   == last.op = "allocate" /\ last.result = "ok"

\* the arena chunks held for the memory types of heap h, in bytes
ResidentArenaBytes(h) ==
    LET ts == {i \in DOMAIN types : types[i].heap_index = h}
        RECURSIVE Sum(_)
        Sum(S) == IF S = {} THEN 0
                  ELSE LET i == CHOOSE x \in S : TRUE
                       IN  SumSizes(arenas[i]) + Sum(S \ {i})
    IN  Sum(ts)

\* C1: at every step every heap has used <= size (u64 comparison), also
\* after an allocation for which the sub-allocator made a new chunk.
C1_BudgetNonViolation ==
    \A h \in DOMAIN heaps : ~ULess(heaps[h].size, heaps[h].used)

\* C2 as stated: once every block is freed, every heap's used is 0.
C2_HeapConservation ==
    blocks = {} => \A h \in DOMAIN heaps : heaps[h].used = 0

\* C2 amended: once every block is freed, every heap's used is the size of
\* the arena chunks still resident for its memory types: each arena keeps
\* at most its tail chunk, and no dynamic chunk and no dedicated allocation
\* is left.
C2_ConservationUpToArenaTail ==
    blocks = {} =>
        /\ \A h \in DOMAIN heaps : heaps[h].used = ResidentArenaBytes(h)
        /\ \A i \in DOMAIN types : Len(arenas[i]) <= 1 /\ dynamics[i] = <<>>
        /\ raw = {arenas[i][1].memory : i \in {j \in DOMAIN types : arenas[j] # <<>>}}

\* every block was freed after blocks of all three flavours had been served
\* by one heap's types: an arena tail chunk is what is left
C2_Witness ==
    /\ blocks = {}
    /\ last.op = "free" /\ last.flavor = "Dynamic"
    /\ \E i \in DOMAIN types : Len(arenas[i]) = 1

\* C3: a call of allocate that returns an error (NoSuitableMemory,
\* HeapsExhausted or the sub-allocator's error) leaves every heap's used
\* as it was before the call.
C3_ErrorLeavesUsed ==
    [][(last'.op = "allocate" /\ last'.result \notin {"ok", "panic"})
         => heaps' = heaps]_vars

\* the sub-allocator's error came back from a type that had been selected
C3_Witness ==
    /\ AllocCall /\ last.result = "OutOfDeviceMemory"
    /\ last.index # NoFitness
    /\ \E h \in DOMAIN heaps : heaps[h].used > 0

\* C4: the memory type of a returned block has its bit in the request mask
\* and a fitness other than None for the request's usage.
C4_MaskAndFitness ==
    AllocOk =>
        /\ MaskBit(last.mask, last.index)
        /\ memory_fitness(last.usage, types[last.index].properties)
           # NoFitness
        /\ \E b \in blocks : b.memory_index = last.index

\* a block came back for a mask that leaves out types fit for the usage
C4_Witness ==
    /\ AllocOk
    /\ \E i \in DOMAIN types :
          /\ ~MaskBit(last.mask, i)
          /\ memory_fitness(last.usage, types[i].properties) # NoFitness

\* type i passes the mask and the fitness filter of request r
Suitable(r, i) ==
    /\ MaskBit(r.mask, i)
    /\ memory_fitness(r.usage, types[i].properties) # NoFitness

\* type i passes the mask, fitness and budget filters of request r, the
\* budget test being the one of the code, on the heaps before the call
Passing(r, i) ==
    /\ Suitable(r, i)
    /\ ULess(r.size + r.align,
             heaps[types[i].heap_index].size - heaps[types[i].heap_index].used)

Fit(r, i) == memory_fitness(r.usage, types[i].properties)

\* the call of this step selected a memory type
Selected == last'.op = "allocate" /\ last'.index # NoFitness

\* C5: the selected type passes the three filters and no type that passes
\* them is fitter; so a type fitter than the selected one, in the mask, was
\* dropped by the budget filter.
C5_MaxFitness ==
    [][Selected =>
          /\ Passing(last', last'.index)
          /\ \A i \in DOMAIN types :
                Passing(last', i) => Fit(last', i) <= Fit(last', last'.index)
          /\ \A i \in DOMAIN types :
                (MaskBit(last'.mask, i) /\ Fit(last', i) > Fit(last', last'.index))
                   => ~Passing(last', i)]_vars

\* a type of lower fitness was selected while a fitter type was in the mask
C5_Witness ==
    /\ AllocOk
    /\ \E i \in DOMAIN types :
          /\ MaskBit(last.mask, i)
          /\ memory_fitness(last.usage, types[i].properties)
             > memory_fitness(last.usage, types[last.index].properties)

\* C6 as stated: of several types that pass the three filters and share the
\* highest fitness, the one of lowest index is selected.
C6_TieLowestIndex ==
    [][Selected =>
          \A i \in DOMAIN types :
             (Passing(last', i) /\ Fit(last', i) = Fit(last', last'.index))
                => last'.index <= i]_vars

\* C6 amended: of several types that pass the three filters and share the
\* highest fitness, the one of highest index is selected.
C6_TieHighestIndex ==
    [][Selected =>
          /\ Passing(last', last'.index)
          /\ \A i \in DOMAIN types :
                (Passing(last', i) /\ Fit(last', i) >= Fit(last', last'.index))
                   => (Fit(last', i) = Fit(last', last'.index)
                       /\ i <= last'.index)]_vars

\* a block came back from the higher of two types of equal fitness, while
\* the heap of the lower one still has room for the request
C6_Witness ==
    /\ AllocOk
    /\ \E i \in DOMAIN types :
          /\ i < last.index
          /\ Suitable(last, i)
          /\ Fit(last, i) = Fit(last, last.index)
          /\ types[i].heap_index # types[last.index].heap_index
          /\ heaps[types[i].heap_index].used = 0

\* C7: NoSuitableMemory is returned exactly when no type has its bit in the
\* mask and a fitness, whatever the heaps hold; HeapsExhausted is returned
\* when some type passes mask and fitness and the heap of every such type
\* has available = size - used <= request size + align.
C7_ErrorKinds ==
    [][last'.op = "allocate" =>
          /\ (last'.result = "NoSuitableMemory")
                <=> (\A i \in DOMAIN types : ~Suitable(last', i))
          /\ ( /\ \E i \in DOMAIN types : Suitable(last', i)
               /\ \A i \in DOMAIN types :
                     Suitable(last', i) =>
                        heaps[types[i].heap_index].size
                          - heaps[types[i].heap_index].used
                        <= last'.size + last'.align )
                => last'.result = "HeapsExhausted"]_vars

\* the same, for calls made while no heap is over-committed
C7_ErrorKindsWithinBudget ==
    [][(last'.op = "allocate" /\ C1_BudgetNonViolation) =>
          /\ (last'.result = "NoSuitableMemory")
                <=> (\A i \in DOMAIN types : ~Suitable(last', i))
          /\ ( /\ \E i \in DOMAIN types : Suitable(last', i)
               /\ \A i \in DOMAIN types :
                     Suitable(last', i) =>
                        heaps[types[i].heap_index].size
                          - heaps[types[i].heap_index].used
                        <= last'.size + last'.align )
                => last'.result = "HeapsExhausted"]_vars

InDedicatedScenario == env = "scenario-dedicated"
InArenaScenario     == env = "scenario-arena"

LastIs(r) ==
    /\ last.op = "allocate"
    /\ last.mask = r.mask /\ last.usage = r.usage
    /\ last.size = r.size /\ last.align = r.align

\* C8 as stated: on the 32 MiB heap, each of 16 consecutive 2 MiB dedicated
\* Upload requests succeeds (unless the device itself refuses), and the
\* request made with 16 blocks live returns HeapsExhausted.
C8_FillsToSize ==
    [][(InDedicatedScenario /\ last'.op = "allocate") =>
          /\ (Cardinality(blocks) < 16 /\ last'.result # "OutOfDeviceMemory")
                => last'.result = "ok"
          /\ Cardinality(blocks) = 16 => last'.result = "HeapsExhausted"]_vars

\* C8 amended: 15 consecutive 2 MiB dedicated Upload requests succeed and
\* bring used to 30 MiB; the request made with 15 blocks live returns
\* HeapsExhausted, since available = 2 MiB is not above size + align; with
\* fewer blocks live, also after a free, the request succeeds again.
C8_FillsBelowSize ==
    [][(InDedicatedScenario /\ last'.op = "allocate") =>
          /\ (Cardinality(blocks) < 15 /\ last'.result # "OutOfDeviceMemory")
                => (last'.result = "ok" /\ last'.flavor = "Dedicated"
                    /\ heaps'[1].used = heaps[1].used + 2 * MiB)
          /\ Cardinality(blocks) = 15
                => (last'.result = "HeapsExhausted" /\ heaps' = heaps
                    /\ heaps[1].used = 30 * MiB)
          /\ Cardinality(blocks) <= 15]_vars

\* a request succeeded after the heap had been exhausted and blocks freed:
\* the handle it got fills a hole below a live handle
C8_Witness ==
    /\ InDedicatedScenario /\ AllocOk
    /\ \E m \in 0..14 : m \notin raw /\ \E n \in raw : n > m

S3Request == Req(3, Download, 64 * MiB, 16)

\* C9 as stated: the 64 MiB Download request of S3 returns a Dedicated
\* block on heap 1 (unless the device itself refuses).
C9_S3Dedicated ==
    (InArenaScenario /\ LastIs(S3Request)
       /\ last.result # "OutOfDeviceMemory")
      => /\ last.result = "ok"
         /\ last.flavor = "Dedicated"
         /\ types[last.index].heap_index = 1

\* C9 amended: the 64 MiB Download request of S3 returns HeapsExhausted,
\* heap 1 holding 32 MiB only; a Download request above
\* arena.max_allocation that passes the budget filter (4 MiB) returns a
\* Dedicated block of type 1 on heap 1.
C9_S3Exhausted ==
    InArenaScenario =>
       /\ LastIs(S3Request)
             => (last.result = "HeapsExhausted" /\ last.flavor = "none")
       /\ (LastIs(Req(3, Download, 4 * MiB, 16)) /\ last.result = "ok")
             => /\ last.flavor = "Dedicated"
                /\ last.index = 1
                /\ types[last.index].heap_index = 1

\* the S3 request was made while a dedicated Download block is live
C9_Witness ==
    /\ InArenaScenario /\ LastIs(S3Request)
    /\ \E b \in blocks : b.flavor = "Dedicated" /\ b.memory_index = 1

\* C10: a block for Upload, Download or Dynamic comes from a host-visible
\* type only; an Upload request whose mask names only types that are not
\* host-visible returns NoSuitableMemory and changes no heap.
C10_HostUsageNeedsHostVisible ==
    [][last'.op = "allocate" =>
          /\ (last'.result = "ok" /\ last'.usage \in {Upload, Download, Dynamic})
                => HOST_VISIBLE \in types[last'.index].properties
          /\ ( /\ last'.usage = Upload
               /\ \A i \in DOMAIN types :
                     MaskBit(last'.mask, i)
                        => HOST_VISIBLE \notin types[i].properties )
                => (last'.result = "NoSuitableMemory" /\ heaps' = heaps)]_vars

\* S4: an Upload request for the device-local-only type was refused
C10_Witness ==
    /\ InArenaScenario
    /\ LastIs(Req(1, Upload, 4 * MiB, 16))
    /\ last.result = "NoSuitableMemory"

\* C11: a returned block is an Arena block iff the usage is Upload or
\* Download, the type's arena is present and size <= arena.max_allocation; a
\* Dynamic block iff the usage is Dynamic or Data, the type's dynamic
\* allocator is present and size <= dynamic.max_allocation; a Dedicated
\* block in every other case.
C11_Routing ==
    AllocOk =>
        LET mt      == types[last.index]
            toArena == /\ last.usage \in {Upload, Download}
                       /\ mt.arena.some
                       /\ last.size <= mt.arena.max_allocation
            toDyn   == /\ last.usage \in {Dynamic, Data}
                       /\ mt.dynamic.some
                       /\ last.size <= mt.dynamic.max_block
        IN  /\ last.flavor = "Arena" <=> toArena
            /\ last.flavor = "Dynamic" <=> toDyn
            /\ last.flavor = "Dedicated" <=> (~toArena /\ ~toDyn)
            /\ \E b \in blocks :
                   b.memory_index = last.index /\ b.flavor = last.flavor

\* a Download above the arena cap was served Dedicated by a type that has
\* an arena and a dynamic allocator
C11_Witness ==
    /\ AllocOk /\ last.flavor = "Dedicated"
    /\ last.usage = Download
    /\ types[last.index].arena.some /\ types[last.index].dynamic.some
    /\ last.size > types[last.index].arena.max_allocation

\* C12: a dispose called while a block returned by allocate has not been
\* freed faults, whichever sub-allocator produced the block.
C12_DisposeFaultsOnLiveBlock ==
    (last.op = "dispose" /\ blocks # {}) => last.result = "panic"

\* the same for the blocks MemoryType::dispose looks at: a live Arena or
\* Dynamic block makes dispose fault
C12_DisposeFaultsOnLiveSubBlock ==
    (last.op = "dispose"
       /\ \E b \in blocks : b.flavor \in {"Arena", "Dynamic"})
      => last.result = "panic"

ForeignFree == last'.op = "free_foreign"

DedicatedBytes(i) ==
    LET RECURSIVE Sum(_)
        Sum(S) == IF S = {} THEN 0
                  ELSE LET b == CHOOSE x \in S : TRUE
                       IN  b.size + Sum(S \ {b})
    IN  Sum({b \in blocks : b.memory_index = i /\ b.flavor = "Dedicated"})

\* the sizes of the dynamic chunks of memory type i
DynamicBytes(i) ==
    LET RECURSIVE Sum(_)
        Sum(chunks) ==
            IF chunks = <<>> THEN 0
            ELSE chunks[1].class * types[i].dynamic.blocks_per_chunk
                 + Sum(Tail(chunks))
    IN  Sum(dynamics[i])

\* the raw allocations held for the memory types of heap h, in bytes
HeldBytes(h) ==
    LET RECURSIVE Sum(_)
        Sum(S) == IF S = {} THEN 0
                  ELSE LET i == CHOOSE x \in S : TRUE
                       IN  DedicatedBytes(i) + SumSizes(arenas[i])
                           + DynamicBytes(i) + Sum(S \ {i})
    IN  Sum({i \in DOMAIN types : types[i].heap_index = h})

\* C14: at every step, used of each heap is the total size of the raw
\* allocations held for the memory types of that heap: the live Dedicated
\* blocks, the resident arena chunks and the resident dynamic chunks, each
\* chunk counted in full from its creation to its release.
C14_UsedIsHeldBytes ==
    \A h \in DOMAIN heaps : heaps[h].used = HeldBytes(h)

\* after a free, one heap holds a drained arena tail chunk and a dynamic
\* chunk of which one slot is taken: used is the two chunks in full
C14_Witness ==
    /\ last.op = "free"
    /\ \E h \in DOMAIN heaps :
          \E i, j \in {t \in DOMAIN types : types[t].heap_index = h} :
             /\ arenas[i] # <<>> /\ arenas[i][1].used_blocks = 0
             /\ dynamics[j] # <<>>
             /\ heaps[h].used = arenas[i][1].size + DynamicBytes(j)

\* the byte range of a block: [offset, offset + size)
Disjoint(a, b) ==
    \/ a.memory # b.memory
    \/ a.offset + a.size <= b.offset
    \/ b.offset + b.size <= a.offset

\* C15: a block returned by allocate is a new one, and any two blocks live
\* at the same time refer to different raw handles or have disjoint byte
\* ranges, after any sequence of allocate and free.
C15_NoCrossContamination ==
    [][/\ (last'.op = "allocate" /\ last'.result = "ok")
            => Cardinality(blocks') = Cardinality(blocks) + 1
       /\ \A a, b \in blocks' : a # b => Disjoint(a, b)]_vars

\* a block was returned on the raw handle of another live block, after a
\* free had made room
C15_Witness ==
    /\ AllocOk
    /\ \E a, b \in blocks :
          /\ a # b /\ a.memory = b.memory
          /\ a.memory_index = last.index /\ a.flavor = last.flavor
          /\ a.offset > 0
    /\ \E m \in 0..MaxLive : m \notin raw /\ \E n \in raw : n > m

\* the block the call of this step returned
Returned(b) == b \in blocks' /\ b \notin blocks

HostVisibleType(i) == HOST_VISIBLE \in types[i].properties

MapCall == last'.op = "map"

\* C17: map of a range that is not contained in the block's range returns
\* OutsideBlock, map of a block whose properties lack host-visible returns
\* HostInvisible (either of the two when both apply), for every block
\* variant; in both cases no window and no driver mapping is made and the
\* handle's mapped refcount stays as it was.
C17_MapErrors ==
    [][MapCall =>
          LET b      == last'.block
              inside == Contains(b, last'.start, last'.end)
              hv     == HOST_VISIBLE \in types[b.memory_index].properties
          IN  /\ (~inside /\ hv) => last'.result = "OutsideBlock"
              /\ (inside /\ ~hv) => last'.result = "HostInvisible"
              /\ (~inside /\ ~hv)
                    => last'.result \in {"OutsideBlock", "HostInvisible"}
              /\ (~inside \/ ~hv)
                    => /\ mapped' = mapped
                       /\ device_mapped' = device_mapped
                       /\ windows' = windows]_vars

\* map of a Dynamic block ran over the block while a window of another
\* block keeps the block's raw handle mapped
C17_Witness ==
    /\ last.op = "map" /\ last.result = "OutsideBlock"
    /\ last.flavor = "Dynamic"
    /\ last.block \in blocks
    /\ mapped[last.block.memory] = 1
    /\ device_mapped[last.block.memory] = 1

\* the windows held on raw handle m
WindowsOn(m) == {w \in windows : w.block.memory = m}

\* C18: for each raw handle, at most one driver mapping is active; the
\* refcount counts the windows held on the handle, and the driver mapping
\* exists exactly while the refcount is above zero, so it is released when
\* the last window is dropped.
C18_OneDriverMapping ==
    \A m \in Memories :
       /\ device_mapped[m] \in {0, 1}
       /\ mapped[m] = Cardinality(WindowsOn(m))
       /\ device_mapped[m] = 1 <=> mapped[m] > 0
       /\ mapped[m] > 0 => m \in raw

\* a window was dropped while another window on the same raw handle is
\* held: the driver mapping stays
C18_Witness ==
    /\ last.op = "drop"
    /\ \E m \in Memories :
          /\ mapped[m] = 1 /\ device_mapped[m] = 1
          /\ Cardinality({b \in blocks : b.memory = m}) = 2

\* C19: in every memory type the arena is present iff the type's properties
\* contain the arena's required properties and the HeapsConfig given to
\* Heaps::new has an arena config, and likewise the dynamic allocator; a
\* present allocator has the given config; allocate and free never change
\* this.
C19_SubAllocatorPresence ==
    \A i \in DOMAIN types :
       LET given == Env.types_in[i + 1] IN
       /\ types[i].arena.some
             <=> (ArenaPropertiesRequired \subseteq given.properties
                  /\ given.config.arena.some)
       /\ types[i].dynamic.some
             <=> (DynamicPropertiesRequired \subseteq given.properties
                  /\ given.config.dynamic.some)
       /\ types[i].arena.some => types[i].arena = given.config.arena
       /\ types[i].dynamic.some => types[i].dynamic = given.config.dynamic

\* a block was freed to a type that was given an arena config but, lacking
\* host-visible, has no arena
C19_Witness ==
    /\ last.op = "free" /\ last.result = "ok"
    /\ Env.types_in[last.index + 1].config.arena.some
    /\ ~types[last.index].arena.some
    /\ types[last.index].dynamic.some

\* C20: a successful allocate changes used of the heap of the returned
\* block's memory type by the allocated count and nothing else in heaps; a
\* successful free changes used of the heap of the freed block's memory
\* type by the freed count the sub-allocator returns and nothing else; no
\* other step (a failed allocate, a fault, dispose) changes heaps.
C20_UsedFrame ==
    [][CASE last'.op = "allocate" /\ last'.result = "ok" ->
              heaps' = [heaps EXCEPT
                          ![types[last'.index].heap_index].used =
                             @ + last'.allocated]
         [] last'.op = "free" /\ last'.result = "ok" ->
              /\ Cardinality(blocks \ blocks') = 1
              /\ \A b \in blocks \ blocks' :
                    heaps' = [heaps EXCEPT
                                ![types[b.memory_index].heap_index].used =
                                   @ - MemoryType_free(b.memory_index, b).freed]
         [] OTHER -> heaps' = heaps]_vars

\* a free released a chunk and brought its heap back to zero while another
\* heap stays charged for a live block
C20_Witness ==
    /\ last.op = "free" /\ last.result = "ok"
    /\ last.flavor \in {"Arena", "Dynamic"}
    /\ heaps[types[last.index].heap_index].used = 0
    /\ \E b \in blocks :
          /\ types[b.memory_index].heap_index # types[last.index].heap_index
          /\ heaps[types[b.memory_index].heap_index].used > b.size

\* the dynamic chunks of type i of a size class that have a free slot
OpenChunks(i, class) ==
    {k \in 1..Len(dynamics[i]) :
        /\ dynamics[i][k].class = class
        /\ Cardinality(dynamics[i][k].used) < types[i].dynamic.blocks_per_chunk}

S1Request == Req(3, Data, 4 * KiB, 256)

\* C21: a block returned by the dynamic allocator comes with a new chunk
\* exactly when no chunk of its size class had a free slot; then used of
\* the type's heap grows by size class x blocks_per_chunk, else used is
\* unchanged and no raw allocation is made; the same request repeated right
\* after one that made a chunk is served from that chunk.
C21_DynamicCharge ==
    [][(last'.op = "allocate" /\ last'.result = "ok"
        /\ last'.flavor = "Dynamic") =>
          \A b \in blocks' : Returned(b) =>
             LET i     == b.memory_index
                 hi    == types[i].heap_index
                 chunk == b.class * types[i].dynamic.blocks_per_chunk
                 fresh == Len(dynamics'[i]) = Len(dynamics[i]) + 1
             IN  /\ fresh <=> OpenChunks(i, b.class) = {}
                 /\ fresh => /\ heaps'[hi].used = heaps[hi].used + chunk
                             /\ b.memory \notin raw
                 /\ ~fresh => /\ heaps' = heaps /\ raw' = raw
                              /\ Len(dynamics'[i]) = Len(dynamics[i])
                 /\ ( /\ last.op = "allocate" /\ last.result = "ok"
                      /\ last.flavor = "Dynamic" /\ last.allocated > 0
                      /\ last.index = i
                      /\ last.mask = last'.mask /\ last.usage = last'.usage
                      /\ last.size = last'.size /\ last.align = last'.align )
                       => /\ ~fresh
                          /\ b.memory = dynamics[i][Len(dynamics[i])].memory]_vars

\* S1: the second 4 KiB Data request was served from the 128 KiB chunk of
\* the first on heap 0
C21_Witness ==
    /\ InArenaScenario /\ LastIs(S1Request)
    /\ last.result = "ok" /\ last.flavor = "Dynamic" /\ last.allocated = 0
    /\ heaps[0].used = 128 * KiB
    /\ \E a, b \in blocks :
          a # b /\ a.memory = b.memory /\ a.offset = 0 /\ b.offset = 4 * KiB

Freed(b) == b \in blocks /\ b \notin blocks'

ArenaTail(i) == arenas[i][Len(arenas[i])]

\* the requests of the caller that return block b from the arena of its
\* type: b's size, an alignment that divides b's offset
ArenaRequestsOf(b) ==
    {r \in Env.requests :
        /\ r.size = b.size
        /\ Route(b.memory_index, r.usage, r.size) = "Arena"
        /\ b.offset % r.align = 0}

S2Request == Req(2, Upload, MiB, 16)

\* C22 as stated: when an Arena block is freed while its chunk is the tail
\* chunk, the chunk stays resident and a following request of the same
\* size and alignment is served from it with no raw allocation.
C22_TailReused ==
    [][(last'.op = "free" /\ last'.result = "ok") =>
          \A b \in blocks :
             (Freed(b) /\ b.flavor = "Arena"
              /\ b.memory = ArenaTail(b.memory_index).memory) =>
                LET i == b.memory_index IN
                /\ arenas'[i] # <<>>
                /\ b.memory \in raw'
                /\ \A r \in ArenaRequestsOf(b) :
                      LET out == MemoryType_alloc(i, r.usage, r.size,
                                                  r.align, TRUE)'
                      IN  /\ out.ok /\ out.allocated = 0
                          /\ out.block.memory = b.memory]_vars

\* C22: when an Arena block is freed while its chunk is the tail chunk,
\* the chunk stays resident as the tail with its cursor where it was; a
\* following request of the same size and alignment is served from it
\* with no raw allocation exactly when the request still fits between the
\* aligned cursor and the chunk's end, and opens a new chunk otherwise.
C22_TailKept ==
    [][(last'.op = "free" /\ last'.result = "ok") =>
          \A b \in blocks :
             (Freed(b) /\ b.flavor = "Arena"
              /\ b.memory = ArenaTail(b.memory_index).memory) =>
                LET i    == b.memory_index
                    tail == ArenaTail(i)
                IN
                /\ arenas'[i] # <<>>
                /\ arenas'[i][Len(arenas'[i])] =
                      [tail EXCEPT !.used_blocks = @ - 1]
                /\ b.memory \in raw'
                /\ \A r \in ArenaRequestsOf(b) :
                      LET out  == MemoryType_alloc(i, r.usage, r.size,
                                                   r.align, TRUE)'
                          a    == Max(r.align, IF HostVisibleType(i)
                                               THEN Env.atom ELSE 1)
                          fits == AlignUp(tail.cursor, a) + r.size <= tail.size
                      IN  /\ out.ok /\ out.block.flavor = "Arena"
                          /\ fits => /\ out.allocated = 0
                                     /\ out.block.memory = b.memory
                                     /\ out.raw = raw'
                          /\ ~fits => /\ out.allocated = types[i].arena.chunk_size
                                      /\ out.block.memory \notin raw']_vars

\* S2: the 1 MiB Upload block was freed, its 4 MiB chunk is still charged
\* to heap 1, and the chunk has room for the next one
C22_Witness ==
    /\ InArenaScenario
    /\ last.op = "free" /\ last.result = "ok" /\ last.flavor = "Arena"
    /\ Len(arenas[1]) = 1
    /\ ArenaTail(1).used_blocks = 0 /\ ArenaTail(1).cursor = MiB
    /\ ArenaTail(1).memory \in raw
    /\ heaps[1].used = 4 * MiB
    /\ S2Request \in ArenaRequestsOf([memory_index |-> 1, flavor |-> "Arena",
                                      memory |-> ArenaTail(1).memory,
                                      offset |-> 0, size |-> MiB,
                                      class |-> 0])

\* the chunks of arena i before the free of b, b's chunk one block down
Decremented(i, b) ==
    LET k == CHOOSE j \in 1..Len(arenas[i]) : arenas[i][j].memory = b.memory
    IN  [arenas[i] EXCEPT ![k].used_blocks = @ - 1]

\* C23: a free of an Arena block releases arena chunks only from the head
\* of the deque: the chunks released are a drained prefix, the tail stays,
\* a chunk behind one that still holds a live block is not released even
\* if it is drained, the raw handles released are those of the chunks
\* removed, and the release goes on until the head holds a live block or
\* is the tail; an allocation releases nothing.
C23_HeadRelease ==
    [][/\ (last'.op = "allocate") => raw \subseteq raw'
       /\ (last'.op = "free" /\ last'.result = "ok") =>
          \A b \in blocks : (Freed(b) /\ b.flavor = "Arena") =>
             LET i    == b.memory_index
                 dec  == Decremented(i, b)
                 kept == arenas'[i]
                 gone == Len(dec) - Len(kept)
             IN  /\ gone >= 0 /\ gone < Len(dec)
                 /\ kept = SubSeq(dec, gone + 1, Len(dec))
                 /\ \A k \in 1..gone : dec[k].used_blocks = 0
                 /\ raw \ raw' = {dec[k].memory : k \in 1..gone}
                 /\ \A k \in 1..Len(dec) :
                       (\E j \in 1..(k - 1) : dec[j].used_blocks > 0)
                          => /\ dec[k].memory \in raw'
                             /\ \E n \in 1..Len(kept) : kept[n] = dec[k]
                 /\ Len(kept) = 1 \/ kept[1].used_blocks > 0
                 /\ \A t \in DOMAIN arenas :
                       t # i => arenas'[t] = arenas[t]]_vars

\* after a free, a drained chunk sits between a head chunk that holds a
\* live block and the tail chunk, still resident
C23_Witness ==
    /\ last.op = "free" /\ last.result = "ok" /\ last.flavor = "Arena"
    /\ \E i \in DOMAIN arenas :
          /\ Len(arenas[i]) >= 3
          /\ arenas[i][1].used_blocks > 0
          /\ arenas[i][2].used_blocks = 0
          /\ arenas[i][2].memory \in raw

\* C24: a request served by the arena has size <= arena.max_allocation
\* <= chunk_size and completes after at most one new chunk: the block lies
\* within the tail chunk, and when a chunk was created it is the only raw
\* allocation and the block sits at its start; when creating the chunk
\* fails the error is returned with the arena, the raw allocations and the
\* heaps as they were.
C24_OneChunk ==
    [][/\ (last'.op = "allocate" /\ last'.result = "ok"
           /\ last'.flavor = "Arena") =>
             \A b \in blocks' : Returned(b) =>
                LET i     == b.memory_index
                    cfg   == types[i].arena
                    fresh == Len(arenas'[i]) - Len(arenas[i])
                    tail  == arenas'[i][Len(arenas'[i])]
                IN  /\ last'.size <= cfg.max_allocation
                    /\ cfg.max_allocation <= cfg.chunk_size
                    /\ fresh \in {0, 1}
                    /\ Cardinality(raw' \ raw) = fresh
                    /\ tail.memory = b.memory
                    /\ b.offset + b.size <= tail.size
                    /\ fresh = 1 => /\ b.offset = 0
                                    /\ tail.size = cfg.chunk_size
                                    /\ last'.allocated = cfg.chunk_size
                                    /\ SubSeq(arenas'[i], 1, Len(arenas[i]))
                                         = arenas[i]
                    /\ fresh = 0 => last'.allocated = 0
       /\ (last'.op = "allocate" /\ last'.result = "OutOfDeviceMemory"
           /\ Route(last'.index, last'.usage, last'.size) = "Arena") =>
             /\ arenas' = arenas /\ raw' = raw
             /\ heaps' = heaps /\ blocks' = blocks]_vars

\* the arena's tail chunk had no room, the device refused a new chunk, and
\* the arena still holds its chunks
C24_Witness ==
    /\ last.op = "allocate" /\ last.result = "OutOfDeviceMemory"
    /\ Route(last.index, last.usage, last.size) = "Arena"
    /\ Len(arenas[last.index]) >= 1
    /\ ArenaTail(last.index).used_blocks >= 1

\* DynamicAllocator: the size class a request is rounded up to
SizeClass(i, size, align) ==
    NextPowerOfTwo(Max(Max(size, align), types[i].dynamic.min_block), 1)

\* C25: a request routed to the dynamic allocator has a size class of at
\* most max_block, also when its align is above max_block.
C25_ClassWithinMaxBlock ==
    [][(last'.op = "allocate" /\ last'.result = "ok"
        /\ last'.flavor = "Dynamic") =>
          \A b \in blocks' : Returned(b) =>
             /\ b.class = SizeClass(b.memory_index, last'.size, last'.align)
             /\ b.class <= types[b.memory_index].dynamic.max_block]_vars

\* C25, the part that holds: a request routed to the dynamic allocator
\* has size <= max_block, and its size class is at most max_block when
\* its align is at most max_block too.
C25_ClassWithinMaxBlockForAlign ==
    [][(last'.op = "allocate" /\ last'.result = "ok"
        /\ last'.flavor = "Dynamic") =>
          \A b \in blocks' : Returned(b) =>
             LET cfg == types[b.memory_index].dynamic IN
             /\ last'.size <= cfg.max_block
             /\ b.class = SizeClass(b.memory_index, last'.size, last'.align)
             /\ last'.align <= cfg.max_block => b.class <= cfg.max_block
             /\ last'.align > cfg.max_block => b.class > cfg.max_block]_vars

\* the memory type has the sub-allocator of the block's variant
HasAllocatorOf(b) ==
    /\ b.memory_index \in DOMAIN types
    /\ b.flavor = "Arena" => types[b.memory_index].arena.some
    /\ b.flavor = "Dynamic" => types[b.memory_index].dynamic.some

\* C26: every block returned by allocate is of a variant whose
\* sub-allocator the block's memory type has, and it stays so while the
\* block is live; a free of such a block on the same Heaps does not panic.
C26_OwnBlocksFree ==
    [][/\ \A b \in blocks' : HasAllocatorOf(b)
       /\ \A b \in blocks : Freed(b) => HasAllocatorOf(b)
       /\ last'.op = "free" =>
             /\ last'.result = "ok" /\ ~panicked'
             /\ \E b \in blocks : Freed(b)]_vars

\* an Arena block and then a Dynamic block were freed, on a device that
\* also has a type with neither sub-allocator
C26_Witness ==
    /\ last.op = "free" /\ last.result = "ok" /\ last.flavor = "Dynamic"
    /\ \E i \in DOMAIN types : ~types[i].arena.some /\ ~types[i].dynamic.some
    /\ \E i \in DOMAIN types : arenas[i] # <<>>
    /\ blocks = {}

\* some type passes mask and fitness, and the heap of every such type has
\* size - used <= request size + align
NoRoomInBudget(call) ==
    /\ \E i \in DOMAIN types : Suitable(call, i)
    /\ \A i \in DOMAIN types :
          Suitable(call, i) =>
             heaps[types[i].heap_index].size - heaps[types[i].heap_index].used
               <= call.size + call.align

\* a resident chunk of type i could take the request without a raw
\* allocation
ChunkHasRoom(call, i) ==
    /\ Route(i, call.usage, call.size) \in {"Arena", "Dynamic"}
    /\ LET out == MemoryType_alloc(i, call.usage, call.size, call.align, TRUE)
       IN  out.ok /\ out.allocated = 0

\* C27: admission looks at the heap only: a request whose every fit type
\* has heap.available <= size + align returns HeapsExhausted and changes
\* nothing, also when a resident chunk of such a type has room for it.
C27_AdmissionByHeapOnly ==
    [][(last'.op = "allocate" /\ NoRoomInBudget(last')) =>
          /\ last'.result = "HeapsExhausted"
          /\ heaps' = heaps /\ arenas' = arenas /\ dynamics' = dynamics
          /\ raw' = raw /\ blocks' = blocks]_vars

\* the same, for calls made while no heap is over-committed; and such a
\* call is refused whether or not a resident chunk has room
C27_AdmissionByHeapOnlyWithinBudget ==
    [][(last'.op = "allocate" /\ C1_BudgetNonViolation
        /\ NoRoomInBudget(last')) =>
          /\ last'.result = "HeapsExhausted"
          /\ heaps' = heaps /\ arenas' = arenas /\ dynamics' = dynamics
          /\ raw' = raw /\ blocks' = blocks]_vars

\* a request was refused with HeapsExhausted while a resident chunk of a
\* fit type had room for it and no heap was over-committed
C27_RefusedWithRoom ==
    /\ last.op = "allocate" /\ last.result = "HeapsExhausted"
    /\ C1_BudgetNonViolation
    /\ \E i \in DOMAIN types : Suitable(last, i) /\ ChunkHasRoom(last, i)

\* the input of Heaps::new this caller has
TypesIn == Env.types_in
HeapSizes == Env.heap_sizes

\* C28: Heaps::new panics when some input memory type has a heap_index
\* that is not below the number of heaps, and builds nothing; otherwise
\* type i of the table is input entry i with its heap_index and
\* properties, every heap has its given size and used = 0, and nothing is
\* allocated.
C28_New ==
    [][last'.op = "new" =>
          IF \E k \in 1..Len(TypesIn) : TypesIn[k].heap_index >= Len(HeapSizes)
          THEN /\ last'.result = "panic" /\ panicked'
               /\ types' = types /\ heaps' = heaps
          ELSE /\ last'.result = "ok" /\ ~panicked'
               /\ DOMAIN types' = 0..(Len(TypesIn) - 1)
               /\ \A i \in DOMAIN types' :
                     /\ types'[i].heap_index = TypesIn[i + 1].heap_index
                     /\ types'[i].properties = TypesIn[i + 1].properties
               /\ DOMAIN heaps' = 0..(Len(HeapSizes) - 1)
               /\ \A h \in DOMAIN heaps' :
                     /\ heaps'[h].size = HeapSizes[h + 1]
                     /\ heaps'[h].used = 0
               /\ raw' = {} /\ blocks' = {}]_vars

\* a type table that names the heap one past the last made Heaps::new
\* panic
C28_Witness ==
    /\ last.op = "new" /\ last.result = "panic"
    /\ \E k \in 1..Len(TypesIn) : TypesIn[k].heap_index = Len(HeapSizes)
    /\ DOMAIN types = {}

\* C29 as stated: every type index of a Heaps that Heaps::new built is
\* below 32, a table of more than 32 entries being rejected.
C29_IndexBelow32 ==
    /\ \A i \in DOMAIN types : i < 32
    /\ (last.op = "new" /\ Len(TypesIn) > 32) => last.result = "panic"

\* C29: Heaps::new rejects a type table only for a heap_index out of
\* range, whatever its length. On a table of at most 32 types the mask
\* test is exact: a block comes from a type whose bit is set in the mask.
\* On a longer table the shift 1u32 << index overflows for index >= 32:
\* built with overflow checks every allocate panics and changes nothing;
\* built without, type i passes the mask test when bit i mod 32 of the
\* mask is set.
C29_MaskTest ==
    [][/\ last'.op = "new" =>
             (last'.result = "panic"
                <=> \E k \in 1..Len(TypesIn) :
                       TypesIn[k].heap_index >= Len(HeapSizes))
       /\ last'.op = "allocate" =>
             LET fit(i) == memory_fitness(last'.usage, types[i].properties)
                              # NoFitness
             IN
             IF \A i \in DOMAIN types : i < 32
             THEN /\ last'.result = "ok" => Bit(last'.mask, last'.index)
                  /\ last'.result = "NoSuitableMemory"
                        <=> \A i \in DOMAIN types :
                               ~(Bit(last'.mask, i) /\ fit(i))
             ELSE IF overflow_checks
             THEN /\ last'.result = "panic"
                  /\ heaps' = heaps /\ blocks' = blocks /\ raw' = raw
             ELSE /\ last'.result = "ok" =>
                        Bit(last'.mask, last'.index % 32)
                  /\ last'.result = "NoSuitableMemory"
                        <=> \A i \in DOMAIN types :
                               ~(Bit(last'.mask, i % 32) /\ fit(i))]_vars

\* on the table of 33 types, built without overflow checks, a request
\* with mask 1 was served by type 32
C29_Witness ==
    /\ Cardinality(DOMAIN types) = 33
    /\ ~overflow_checks
    /\ last.op = "allocate" /\ last.result = "ok"
    /\ last.mask = 1 /\ last.index = 32
    /\ \E b \in blocks : b.memory_index = 32

====
